---- MODULE Spec2Model ----
(***************************************************************************)
(* Model of the concerto command-line client: the response classifier of   *)
(* utils.CheckReturnCode / utils.ScrapeErrorMessage, the webservice        *)
(* request primitives and the command handlers that call them.             *)
(*                                                                         *)
(* Strings are sequences of one-character strings, so that substring       *)
(* tests, regular-expression matches, Split, FieldsFunc and Join are       *)
(* computed character by character as the Go code computes them.           *)
(***************************************************************************)
EXTENDS Integers, Sequences, FiniteSets, TLC

VARIABLES
    op,        \* what is run: "CheckReturnCode" alone, a primitive, or a command
    pc,        \* position of the run
    ip,        \* index of the next statement of the command (see Program)
    res,       \* CheckReturnCode's argument res (the status code)
    mesg,      \* CheckReturnCode's argument mesg (the body bytes, as the caller sees them)
    body,      \* the body bytes the server sent (never written by the client)
    status,    \* the status code the server sent
    exchange,  \* how the HTTP exchange went: "none", "dial failed", "read failed", "ok"
    hdr,       \* the Content-Disposition header the server sent
    rule,      \* branch of the classification chain taken: 0 none, 1 html, 2 errors, 3 error, 4 raw
    message,   \* local variable message of CheckReturnCode at its end
    logged,    \* what log.Fatal wrote before os.Exit (<<>> when nothing was logged)
    ret,       \* what the last call returned to the command
    out,       \* what the command did with a response: "decode" and "print" events
    attempts,  \* number of HTTP requests sent
    stream,    \* the response body stream: "none", "open", "closed"
    file,      \* the destination file handle of GetFile: "none", "open", "closed"
    disk,      \* the files of the destination directory: path -> [exists, content]
    fileName,  \* local variable fileName of GetFile
    clients,   \* number of http clients constructed
    ws         \* the *Webservice the command holds (NoWs is the nil pointer)

classifyVars == <<res, mesg, rule, message, logged>>
netVars == <<body, status, exchange, hdr, attempts, stream>>
fileVars == <<file, disk, fileName>>

vars == <<op, pc, ip, res, mesg, body, status, exchange, hdr, rule, message, logged,
          ret, out, attempts, stream, file, disk, fileName, clients, ws>>

-----------------------------------------------------------------------------
(* Bounds *)

\* A body is the concatenation of at most MaxFrags fragments of Fragments.
MaxFrags == 4

-----------------------------------------------------------------------------
(* Characters and string literals of the source *)

NL == "\n"

HTML == <<"<", "h", "t", "m", "l", ">">>
TITLE == <<"<", "t", "i", "t", "l", "e", ">">>
ETITLE == <<"<", "/", "t", "i", "t", "l", "e", ">">>
ERRORS == <<"{", "\"", "e", "r", "r", "o", "r", "s", "\"", ":">>
ERRORSOBJ == ERRORS \o <<"{">>
ERROR == <<"{", "\"", "e", "r", "r", "o", "r", "\"", ":">>
ERRORQ == ERROR \o <<"\"">>
QCLOSE == <<"\"", "}">>
CLOSE == <<"}">>
GENERIC == <<"E", "r", "r", "o", "r", " ", "e", "x", "e", "c", "u", "t", "i", "n", "g",
             " ", "o", "p", "e", "r", "a", "t", "i", "o", "n">>
FAILED == <<"H", "T", "T", "P", " ", "r", "e", "q", "u", "e", "s", "t", " ",
            "f", "a", "i", "l", "e", "d", ":", " ", "[">>

\* Body fragments the inputs are built from: the markers, JSON pieces that
\* carry every separator character, a newline and a plain letter.
OBJ == <<"{", "\"", "n", "\"", ":", "\"", "r", " ", "q", "\"", ",",
         "\"", "m", "\"", ":", "[", "\"", "p", "\"", "]", "}">>
QS == <<"\"", "x", " ", "y", "\"">>
MORE == <<",", "\"", "c", "\"", ":", "[", "5", "]">>

Fragments == {HTML, TITLE, ETITLE, ERRORS, ERROR, OBJ, QS, MORE,
              <<"{">>, <<"}">>, <<NL>>, <<"x">>}

RECURSIVE BodiesUpTo(_)
BodiesUpTo(n) ==
    IF n = 0 THEN {<<>>}
    ELSE LET shorter == BodiesUpTo(n - 1)
         IN  shorter \cup {b \o f : b \in shorter, f \in Fragments}

Bodies == BodiesUpTo(MaxFrags)

Statuses == {299, 300, 404}

-----------------------------------------------------------------------------
(* Go library functions used by the classifier *)

\* s has p at position i (1-based)
HasAt(s, p, i) ==
    /\ i + Len(p) - 1 <= Len(s)
    /\ \A k \in 1..Len(p) : s[i + k - 1] = p[k]

\* strings.Contains(s, substr)
Contains(s, substr) == \E i \in 1..Len(s) : HasAt(s, substr, i)

Min(S) == CHOOSE x \in S : \A y \in S : x <= y

\* The regular expressions of the source all have the shape  pre(.*?)post
\* with literal pre and post.  regexp.Compile accepts each of them ('{' that
\* opens no repetition and '}' are literals in Go's syntax).
Compiles(regExpression) ==
    /\ Len(regExpression.pre) > 0
    /\ Len(regExpression.post) > 0

\* mutant of Dot: the dot also matches a newline (flag s)
DotAll(c) == c = c

\* '.' matches every character except newline
Dot(c) == c # NL

\* Positions where a match of pre(.*?)post that starts at i can put post
MatchEnds(s, re, i) ==
    {j \in (i + Len(re.pre))..(Len(s) + 1) :
        /\ HasAt(s, re.post, j)
        /\ \A k \in (i + Len(re.pre))..(j - 1) : Dot(s[k])}

MatchStarts(s, re) ==
    {i \in 1..Len(s) : HasAt(s, re.pre, i) /\ MatchEnds(s, re, i) # {}}

\* (*Regexp).FindStringSubmatch: leftmost match, the lazy group as short as
\* possible; <<>> (nil) when nothing matches, else <<whole match, group 1>>.
FindStringSubmatch(s, re) ==
    IF MatchStarts(s, re) = {} THEN <<>>
    ELSE LET i == Min(MatchStarts(s, re))
             j == Min(MatchEnds(s, re, i))
         IN  << SubSeq(s, i, j + Len(re.post) - 1),
                SubSeq(s, i + Len(re.pre), j - 1) >>

\* mutant of SplitFirst: the message is not cut at the first comma
SplitWhole(s) == s

\* strings.Split(s, ",")[0]: the text before the first comma, all of s when
\* there is none (Split never returns an empty slice for a non-empty separator)
SplitFirst(s) ==
    IF \E i \in 1..Len(s) : s[i] = ","
    THEN SubSeq(s, 1, Min({i \in 1..Len(s) : s[i] = ","}) - 1)
    ELSE s

\* the closure f of CheckReturnCode
f(c) == c \in {",", ":", "{", "}", "\"", "]", "["}

\* strings.FieldsFunc(s, f): the maximal runs of characters not satisfying f
RECURSIVE FieldsFrom(_, _, _)
FieldsFrom(s, i, cur) ==
    IF i > Len(s) THEN (IF cur = <<>> THEN <<>> ELSE <<cur>>)
    ELSE IF f(s[i])
         THEN (IF cur = <<>> THEN <<>> ELSE <<cur>>) \o FieldsFrom(s, i + 1, <<>>)
         ELSE FieldsFrom(s, i + 1, Append(cur, s[i]))

FieldsFunc(s) == FieldsFrom(s, 1, <<>>)

\* strings.Join(fields, " ")
RECURSIVE Join(_)
Join(fields) ==
    IF fields = <<>> THEN <<>>
    ELSE IF Len(fields) = 1 THEN fields[1]
    ELSE fields[1] \o <<" ">> \o Join(Tail(fields))

-----------------------------------------------------------------------------
(* utils.ScrapeErrorMessage *)

\* mutant of ScrapeErrorMessage: the slice is indexed without the nil and
\* length test
ScrapeUnguarded(msg, regExpression) ==
    IF ~Compiles(regExpression) THEN [panic |-> TRUE, message |-> <<>>]
    ELSE LET scrapped == FindStringSubmatch(msg, regExpression)
         IN  IF Len(scrapped) < 2
             THEN [panic |-> TRUE, message |-> <<>>]
             ELSE [panic |-> FALSE, message |-> scrapped[2]]

\* Result: [panic, message].  A nil re (failed Compile) makes the call of
\* FindStringSubmatch panic; an index past the slice's end panics too.
ScrapeErrorMessage(msg, regExpression) ==
    IF ~Compiles(regExpression) THEN [panic |-> TRUE, message |-> <<>>]
    ELSE LET scrapped == FindStringSubmatch(msg, regExpression)
         IN  IF scrapped = <<>> \/ Len(scrapped) < 2
             THEN [panic |-> FALSE, message |-> GENERIC]
             ELSE [panic |-> FALSE, message |-> scrapped[2]]

-----------------------------------------------------------------------------
(* utils.CheckReturnCode *)

\* mutant of errorScrap: the pattern ends at the closing quote
errorScrapToQuote == [pre |-> ERRORQ, post |-> <<"\"">>]

htmlScrap == [pre |-> TITLE, post |-> ETITLE]
errorsScrap == [pre |-> ERRORS, post |-> CLOSE]
errorScrap == [pre |-> ERRORQ, post |-> QCLOSE]

\* mutant of Branch: the JSON tests come before the HTML test
BranchJsonFirst(msg) ==
    IF Contains(msg, ERRORSOBJ) THEN 2
    ELSE IF Contains(msg, ERROR) THEN 3
    ELSE IF Contains(msg, HTML) THEN 1
    ELSE 4

\* The if / else if chain: which branch is taken for a message
Branch(msg) ==
    IF Contains(msg, HTML) THEN 1
    ELSE IF Contains(msg, ERRORSOBJ) THEN 2
    ELSE IF Contains(msg, ERROR) THEN 3
    ELSE 4

\* The message computed by the branch taken: [panic, message]
Classify(msg) ==
    LET b == Branch(msg)
    IN  IF b = 1 THEN ScrapeErrorMessage(msg, htmlScrap)
        ELSE IF b = 2
        THEN LET s == ScrapeErrorMessage(msg, errorsScrap)
             IN  IF s.panic THEN s
                 ELSE [panic |-> FALSE,
                       message |-> Join(FieldsFunc(SplitFirst(s.message)))]
        ELSE IF b = 3 THEN ScrapeErrorMessage(msg, errorScrap)
        ELSE [panic |-> FALSE, message |-> msg]

\* fmt.Sprintf("HTTP request failed: [%s]", message)
Sprintf(msg) == FAILED \o msg \o <<"]">>

\* mutant of CheckReturnCode: the test is res > 300
CheckReturnCodeAbove300(r, m) ==
    IF r > 300
    THEN LET c == Classify(m)
         IN  [end |-> "exited", rule |-> Branch(m), message |-> c.message,
              logged |-> Sprintf(c.message)]
    ELSE [end |-> "returned", rule |-> 0, message |-> <<>>, logged |-> <<>>]

\* The whole function: where the call ends ("returned", "exited" by
\* log.Fatal, "panicked"), the branch taken, the final message and the line
\* log.Fatal wrote.
CheckReturnCode(r, m) ==
    IF r >= 300
    THEN LET c == Classify(m)
         IN  IF c.panic
             THEN [end |-> "panicked", rule |-> Branch(m), message |-> <<>>, logged |-> <<>>]
             ELSE [end |-> "exited", rule |-> Branch(m), message |-> c.message,
                   logged |-> Sprintf(c.message)]
    ELSE [end |-> "returned", rule |-> 0, message |-> <<>>, logged |-> <<>>]

-----------------------------------------------------------------------------
(* The classifier run on its own: every status and body of the bounds *)

\* the value of ret before any call
\* &Webservice{config, client}, and the nil pointer NewWebService returns
\* with an error
Webservice(config, client) == [config |-> config, client |-> client]
NoWs == Webservice("nil", "nil")
\* what ConcertoServerConfiguration and httpClient return on success
Config == "config"
Client == "client"

NoRet == [call |-> "none", err |-> "nil", data |-> <<>>, hasData |-> FALSE,
          isNil |-> TRUE, code |-> 0, hasCode |-> FALSE, path |-> <<>>]

\* The files GetFile can name in the destination directory "d"
Paths == {<<"d", "/">>, <<"d", "/", "r">>}

\* the destination directory holds no file
NoFiles == [p \in Paths |-> [exists |-> FALSE, content |-> <<>>]]

\* the destination directory holds an older download
OldFile == [NoFiles EXCEPT ![<<"d", "/", "r">>] =
               [exists |-> TRUE, content |-> <<"o", "l", "d">>]]

InitClassify ==
    /\ op = "CheckReturnCode"
    /\ pc = "call"
    /\ ip = 1
    /\ res \in Statuses
    /\ body \in Bodies
    /\ mesg = body
    /\ status = res
    /\ exchange = "ok"
    /\ hdr = <<>>
    /\ rule = 0
    /\ message = <<>>
    /\ logged = <<>>
    /\ ret = NoRet
    /\ out = <<>>
    /\ attempts = 0
    /\ stream = "none"
    /\ file = "none"
    /\ disk = NoFiles
    /\ fileName = <<>>
    /\ clients = 0
    /\ ws = NoWs

CallCheckReturnCode ==
    /\ pc = "call"
    /\ \E r \in {CheckReturnCode(res, mesg)} :
           /\ pc' = r.end
           /\ rule' = r.rule
           /\ message' = r.message
           /\ logged' = r.logged
    /\ UNCHANGED <<op, ip, res, mesg, ret, out, clients, ws>>
    /\ UNCHANGED netVars
    /\ UNCHANGED fileVars

NextClassify == CallCheckReturnCode

SpecClassify == InitClassify /\ [][NextClassify]_vars

-----------------------------------------------------------------------------
(* The commands and the request primitives *)

\* Each command is the sequence of its statements that touch the web service
\* or end the run.  "X3" is the call of a primitive the command destructures
\* into three values (err, body, status code).
Get3Cmd == <<"NewWebService", "CheckError", "Get3", "CheckError", "CheckReturnCode",
             "Unmarshal", "Print">>
Post3Cmd == <<"NewWebService", "CheckError", "Post3", "FatalIfNil", "CheckError",
              "CheckReturnCode", "Unmarshal", "Print">>
Put3Cmd == <<"NewWebService", "CheckError", "Put3", "CheckError", "CheckReturnCode",
             "Unmarshal", "Print">>
Delete3Cmd == <<"NewWebService", "CheckError", "Delete3", "CheckError", "CheckReturnCode">>

templates_cmdList == Get3Cmd
templates_cmdShow == Get3Cmd
templates_cmdCreate ==
    <<"NewWebService", "CheckError", "ParseFlags", "Post3", "FatalIfNil", "CheckError",
      "CheckReturnCode", "Unmarshal", "Print">>
templates_cmdUpdate ==
    <<"NewWebService", "CheckError", "ParseFlags", "Put3", "CheckReturnCode", "CheckError",
      "Unmarshal", "Print">>
templates_cmdDelete == Delete3Cmd
templates_cmdListTemplateScripts == Get3Cmd
templates_cmdShowTemplateScript == Get3Cmd
templates_cmdCreateTemplateScript == Post3Cmd
templates_cmdUpdateTemplateScript == Put3Cmd
templates_cmdDeleteTemplateScript == Delete3Cmd
templates_cmdReorderTemplateScripts == Put3Cmd
templates_cmdListTemplateServers == Get3Cmd

cloud_accounts_cmdList ==
    <<"NewWebService", "CheckError", "Get", "CheckError", "Unmarshal", "Print">>
cloud_accounts_cmdCreate ==
    <<"NewWebService", "CheckError", "Post3", "FatalIfNil", "CheckError">>
cloud_accounts_cmdUpdate ==
    <<"NewWebService", "CheckError", "Put3", "CheckError", "Print">>
cloud_accounts_cmdDelete ==
    <<"NewWebService", "CheckError", "Delete3", "CheckError", "CheckReturnCode1", "Print">>

\* A primitive of the webservice package called on its own, by a caller that
\* keeps what it returns
callGet == <<"NewWebService", "CheckError", "Get">>
callPost == <<"NewWebService", "CheckError", "Post">>
callGetFile == <<"NewWebService", "CheckError", "GetFile">>

Commands ==
    {"templates list", "templates show", "templates create", "templates update",
     "templates delete", "templates list_template_scripts",
     "templates show_template_script", "templates create_template_script",
     "templates update_template_script", "templates delete_template_script",
     "templates reorder_template_scripts", "templates list_template_servers",
     "cloud_accounts list", "cloud_accounts create", "cloud_accounts update",
     "cloud_accounts delete"}

Primitives == {"Get", "Post", "GetFile"}

Program(o) ==
    CASE o = "templates list" -> templates_cmdList
      [] o = "templates show" -> templates_cmdShow
      [] o = "templates create" -> templates_cmdCreate
      [] o = "templates update" -> templates_cmdUpdate
      [] o = "templates delete" -> templates_cmdDelete
      [] o = "templates list_template_scripts" -> templates_cmdListTemplateScripts
      [] o = "templates show_template_script" -> templates_cmdShowTemplateScript
      [] o = "templates create_template_script" -> templates_cmdCreateTemplateScript
      [] o = "templates update_template_script" -> templates_cmdUpdateTemplateScript
      [] o = "templates delete_template_script" -> templates_cmdDeleteTemplateScript
      [] o = "templates reorder_template_scripts" -> templates_cmdReorderTemplateScripts
      [] o = "templates list_template_servers" -> templates_cmdListTemplateServers
      [] o = "cloud_accounts list" -> cloud_accounts_cmdList
      [] o = "cloud_accounts create" -> cloud_accounts_cmdCreate
      [] o = "cloud_accounts update" -> cloud_accounts_cmdUpdate
      [] o = "cloud_accounts delete" -> cloud_accounts_cmdDelete
      [] o = "Get" -> callGet
      [] o = "Post" -> callPost
      [] o = "GetFile" -> callGetFile
      [] OTHER -> <<>>

\* the statement the run is at
At(instr) ==
    /\ pc = "run"
    /\ ip <= Len(Program(op))
    /\ Program(op)[ip] = instr

\* Error values, by the text log.Fatal prints for them
ErrConfig == "config: cannot read configuration"
ErrCert == "tls: failed to load certificate"
ErrDial == "dial tcp: connection refused"
ErrRead == "unexpected EOF"
ErrFlags == "invalid character in flag"
ErrJson == "json: cannot unmarshal"
ErrCreate == "open: permission denied"
ErrCopy == "write: no space left on device"

\* What the servers of the model answer
CmdStatuses == {200, 299, 300, 404}
CmdBodies == {<<"x">>, OBJ, ERROR \o QS \o <<"}">>, HTML \o TITLE \o <<"x">> \o ETITLE}

\* json.Unmarshal accepts the body
ValidJson(data) == data \in {OBJ, ERROR \o QS \o <<"}">>}

Ret(call, err, data, hasData, isNil, code, hasCode, path) ==
    [call |-> call, err |-> err, data |-> data, hasData |-> hasData, isNil |-> isNil,
     code |-> code, hasCode |-> hasCode, path |-> path]

\* log.Fatal(x): write x, then os.Exit(1)
Fatal(line) ==
    /\ logged' = line
    /\ pc' = "exited"
    /\ ip' = ip

Init ==
    /\ op \in Commands \cup Primitives
    /\ pc = "run"
    /\ ip = 1
    /\ res = 0
    /\ mesg = <<>>
    /\ body = <<>>
    /\ status = 0
    /\ exchange = "none"
    /\ hdr = <<>>
    /\ rule = 0
    /\ message = <<>>
    /\ logged = <<>>
    /\ ret = NoRet
    /\ out = <<>>
    /\ attempts = 0
    /\ stream = "none"
    /\ file = "none"
    /\ disk \in {NoFiles, OldFile}
    /\ fileName = <<>>
    /\ clients = 0
    /\ ws = NoWs

\* webservice.NewWebService: the configuration, then the key pair, then the client
NewWebService ==
    /\ At("NewWebService")
    /\ \E configOk \in BOOLEAN, certOk \in BOOLEAN :
        LET err == IF ~configOk THEN ErrConfig ELSE IF ~certOk THEN ErrCert ELSE "nil"
        IN  /\ ret' = Ret("NewWebService", err, <<>>, FALSE, TRUE, 0, FALSE, <<>>)
            /\ clients' = IF err = "nil" THEN clients + 1 ELSE clients
            /\ ws' = IF err = "nil" THEN Webservice(Config, Client) ELSE NoWs
    /\ ip' = ip + 1
    /\ UNCHANGED <<op, pc, out>>
    /\ UNCHANGED classifyVars
    /\ UNCHANGED netVars
    /\ UNCHANGED fileVars

\* mutant of StepCheckError: the error is logged and the command goes on
StepCheckErrorLogOnly ==
    /\ At("CheckError")
    /\ logged' = IF ret.err # "nil" THEN <<ret.err>> ELSE logged
    /\ ip' = ip + 1
    /\ UNCHANGED <<op, pc, res, mesg, rule, message, ret, out, clients, ws>>
    /\ UNCHANGED netVars
    /\ UNCHANGED fileVars

\* utils.CheckError(err)
StepCheckError ==
    /\ At("CheckError")
    /\ IF ret.err # "nil"
       THEN Fatal(<<ret.err>>)
       ELSE /\ ip' = ip + 1
            /\ UNCHANGED <<pc, logged>>
    /\ UNCHANGED <<op, res, mesg, rule, message, ret, out, clients, ws>>
    /\ UNCHANGED netVars
    /\ UNCHANGED fileVars

\* json.Unmarshal of a flag's value, then utils.CheckError(err)
ParseFlags ==
    /\ At("ParseFlags")
    /\ \E ok \in BOOLEAN :
        IF ok
        THEN /\ ip' = ip + 1
             /\ UNCHANGED <<pc, logged>>
        ELSE Fatal(<<ErrFlags>>)
    /\ UNCHANGED <<op, res, mesg, rule, message, ret, out, clients, ws>>
    /\ UNCHANGED netVars
    /\ UNCHANGED fileVars

\* What Webservice.Get returns for an exchange: the body and the error
Get(how, b) ==
    IF how = "dial failed" THEN Ret("Get", ErrDial, <<>>, TRUE, TRUE, 0, FALSE, <<>>)
    ELSE IF how = "read failed" THEN Ret("Get", ErrRead, <<>>, TRUE, TRUE, 0, FALSE, <<>>)
    ELSE Ret("Get", "nil", b, TRUE, FALSE, 0, FALSE, <<>>)

\* What Webservice.Post returns for an exchange: the error alone
Post(how) ==
    IF how = "dial failed" THEN Ret("Post", ErrDial, <<>>, FALSE, TRUE, 0, FALSE, <<>>)
    ELSE Ret("Post", "nil", <<>>, FALSE, TRUE, 0, FALSE, <<>>)

\* The exchange as the network decides it: status, body and header are those
\* of the response, if one arrives
Exchange(how, st, b, h) ==
    /\ exchange' = how
    /\ status' = IF how = "dial failed" THEN 0 ELSE st
    /\ body' = IF how = "dial failed" THEN <<>> ELSE b
    /\ hdr' = IF how = "dial failed" THEN <<>> ELSE h

\* mutant of CallGet: a failed connection is tried a second time
CallGetRetry ==
    /\ At("Get")
    /\ \E how \in {"dial failed", "read failed", "ok"}, st \in CmdStatuses, b \in CmdBodies :
        /\ Exchange(how, st, b, <<>>)
        /\ ret' = Get(how, b)
        /\ stream' = IF how = "dial failed" THEN stream ELSE "closed"
        /\ attempts' = IF how = "dial failed" THEN attempts + 2 ELSE attempts + 1
    /\ ip' = ip + 1
    /\ UNCHANGED <<op, pc, out, clients, ws>>
    /\ UNCHANGED classifyVars
    /\ UNCHANGED fileVars

\* Webservice.Get, the whole call: the deferred Close has run when it returns
CallGet ==
    /\ At("Get")
    /\ \E how \in {"dial failed", "read failed", "ok"}, st \in CmdStatuses, b \in CmdBodies :
        /\ Exchange(how, st, b, <<>>)
        /\ ret' = Get(how, b)
        /\ stream' = IF how = "dial failed" THEN stream ELSE "closed"
    /\ attempts' = attempts + 1
    /\ ip' = ip + 1
    /\ UNCHANGED <<op, pc, out, clients, ws>>
    /\ UNCHANGED classifyVars
    /\ UNCHANGED fileVars

\* Webservice.Post, the whole call: the body is never read
CallPost ==
    /\ At("Post")
    /\ \E how \in {"dial failed", "ok"}, st \in CmdStatuses, b \in CmdBodies :
        /\ Exchange(how, st, b, <<>>)
        /\ ret' = Post(how)
        /\ stream' = IF how = "dial failed" THEN stream ELSE "closed"
    /\ attempts' = attempts + 1
    /\ ip' = ip + 1
    /\ UNCHANGED <<op, pc, out, clients, ws>>
    /\ UNCHANGED classifyVars
    /\ UNCHANGED fileVars

\* The primitives that return (err, body, status).  On a completed exchange:
\* no error, the full body and the response's status.  On a transport error:
\* the error; no response means no body and no status, a response whose body
\* could not be read leaves it open whether the status read from its header
\* (or none) and the bytes read so far (or nil) come along with the error.
Request3(call, how, st, b, nilBody, withCode) ==
    IF how = "ok" THEN Ret(call, "nil", b, TRUE, FALSE, st, TRUE, <<>>)
    ELSE IF how = "dial failed" THEN Ret(call, ErrDial, <<>>, TRUE, TRUE, 0, TRUE, <<>>)
    ELSE Ret(call, ErrRead, IF nilBody THEN <<>> ELSE SubSeq(b, 1, Len(b) - 1), TRUE, nilBody,
             IF withCode THEN st ELSE 0, TRUE, <<>>)

CallRequest3 ==
    /\ \E call \in {"Get3", "Post3", "Put3", "Delete3"} :
        /\ At(call)
        /\ \E how \in {"dial failed", "read failed", "ok"}, st \in CmdStatuses,
              b \in CmdBodies, nilBody \in BOOLEAN, withCode \in BOOLEAN :
            /\ Exchange(how, st, b, <<>>)
            /\ ret' = Request3(call, how, st, b, nilBody, withCode)
            /\ stream' = IF how = "dial failed" THEN stream ELSE "closed"
        /\ attempts' = attempts + 1
    /\ ip' = ip + 1
    /\ UNCHANGED <<op, pc, out, clients, ws>>
    /\ UNCHANGED classifyVars
    /\ UNCHANGED fileVars

\* if res == nil { log.Fatal(err) }
StepFatalIfNil ==
    /\ At("FatalIfNil")
    /\ IF ret.isNil
       THEN Fatal(<<IF ret.err = "nil" THEN "<nil>" ELSE ret.err>>)
       ELSE /\ ip' = ip + 1
            /\ UNCHANGED <<pc, logged>>
    /\ UNCHANGED <<op, res, mesg, rule, message, ret, out, clients, ws>>
    /\ UNCHANGED netVars
    /\ UNCHANGED fileVars

\* utils.CheckReturnCode(code, body); cloud_accounts delete passes the status alone
StepCheckReturnCode ==
    /\ At("CheckReturnCode") \/ At("CheckReturnCode1")
    /\ \E m \in {IF At("CheckReturnCode1") THEN <<>> ELSE ret.data} :
       \E r \in {CheckReturnCode(ret.code, m)} :
        /\ res' = ret.code
        /\ mesg' = m
        /\ rule' = r.rule
        /\ message' = r.message
        /\ logged' = r.logged
        /\ pc' = IF r.end = "returned" THEN "run" ELSE r.end
        /\ ip' = IF r.end = "returned" THEN ip + 1 ELSE ip
    /\ UNCHANGED <<op, ret, out, clients, ws>>
    /\ UNCHANGED netVars
    /\ UNCHANGED fileVars

\* err = json.Unmarshal(body, &v); utils.CheckError(err)
StepUnmarshal ==
    /\ At("Unmarshal")
    /\ out' = Append(out, "decode")
    /\ IF ValidJson(ret.data)
       THEN /\ ip' = ip + 1
            /\ UNCHANGED <<pc, logged>>
       ELSE Fatal(<<ErrJson>>)
    /\ UNCHANGED <<op, res, mesg, rule, message, ret, clients, ws>>
    /\ UNCHANGED netVars
    /\ UNCHANGED fileVars

\* the table or the value is written to standard output
StepPrint ==
    /\ At("Print")
    /\ out' = Append(out, "print")
    /\ ip' = ip + 1
    /\ UNCHANGED <<op, pc, ret, clients, ws>>
    /\ UNCHANGED classifyVars
    /\ UNCHANGED netVars
    /\ UNCHANGED fileVars

\* the command's function returns
Finish ==
    /\ pc = "run"
    /\ ip > Len(Program(op))
    /\ pc' = "done"
    /\ UNCHANGED <<op, ip, ret, out, clients, ws>>
    /\ UNCHANGED classifyVars
    /\ UNCHANGED netVars
    /\ UNCHANGED fileVars

-----------------------------------------------------------------------------
(* Webservice.GetFile, statement by statement *)

\* the literal text of contentDispositionRegex:  filename="([^"]*){1}"
FNPRE == <<"f", "i", "l", "e", "n", "a", "m", "e", "=", "\"">>
QUOTE == "\""

\* Match ends of the pattern started at i: the first quote after the prefix
FnEnds(h, i) ==
    {j \in (i + Len(FNPRE))..Len(h) :
        /\ h[j] = QUOTE
        /\ \A k \in (i + Len(FNPRE))..(j - 1) : h[k] # QUOTE}

FnStarts(h) == {i \in 1..Len(h) : HasAt(h, FNPRE, i) /\ FnEnds(h, i) # {}}

\* r.FindStringSubmatch(header): <<>> (nil) or <<whole match, file name>>
FindFilename(h) ==
    IF FnStarts(h) = {} THEN <<>>
    ELSE LET i == Min(FnStarts(h))
             j == Min(FnEnds(h, i))
         IN  <<SubSeq(h, i, j), SubSeq(h, i + Len(FNPRE), j - 1)>>

\* fmt.Sprintf("%s/%s", directoryPath, fileName), for the directory "d"
RealFileName(name) == <<"d", "/">> \o name

\* Header values the servers of the model send; <<>> is the absent header
ATTACHMENT == <<"a", "t", "t", "a", "c", "h", "m", "e", "n", "t", ";", " ">>
Headers ==
    {<<>>, ATTACHMENT, ATTACHMENT \o FNPRE \o <<"r", QUOTE>>, FNPRE \o <<QUOTE>>,
     FNPRE \o <<"r">>}

\* Bodies of the downloads
FileBodies == {<<>>, <<"x">>, <<"x", NL, "y">>}

GetFileCall == At("GetFile")

\* w.client.Get and its error test
GetFileRequest ==
    /\ GetFileCall
    /\ \E how \in {"dial failed", "ok"}, st \in CmdStatuses, b \in FileBodies, h \in Headers :
        /\ Exchange(how, st, b, h)
        /\ IF how = "dial failed"
           THEN /\ ret' = Ret("GetFile", ErrDial, <<>>, FALSE, TRUE, 0, FALSE, <<>>)
                /\ ip' = ip + 1
                /\ UNCHANGED <<pc, stream>>
           ELSE /\ stream' = "open"
                /\ pc' = "GetFile name"
                /\ UNCHANGED <<ip, ret>>
    /\ attempts' = attempts + 1
    /\ UNCHANGED <<op, out, clients, ws>>
    /\ UNCHANGED classifyVars
    /\ UNCHANGED fileVars

\* mutant of GetFileName: response.Body.Close() is not deferred but called
\* before the return, so the panic skips it
GetFileNameNoDefer ==
    /\ pc = "GetFile name"
    /\ \E m \in {FindFilename(hdr)} :
        IF Len(m) < 2
        THEN /\ pc' = "panicked"
             /\ UNCHANGED fileName
        ELSE /\ fileName' = m[2]
             /\ pc' = "GetFile create"
    /\ UNCHANGED <<op, ip, ret, out, clients, ws, body, status, exchange, hdr, attempts, stream,
                   file, disk>>
    /\ UNCHANGED classifyVars

\* fileName := r.FindStringSubmatch(...)[1]: indexing the nil slice panics,
\* and the deferred response.Body.Close() runs while the panic unwinds
GetFileName ==
    /\ pc = "GetFile name"
    /\ \E m \in {FindFilename(hdr)} :
        IF Len(m) < 2
        THEN /\ pc' = "panicked"
             /\ stream' = "closed"
             /\ UNCHANGED fileName
        ELSE /\ fileName' = m[2]
             /\ pc' = "GetFile create"
             /\ UNCHANGED stream
    /\ UNCHANGED <<op, ip, ret, out, clients, ws, body, status, exchange, hdr, attempts, file, disk>>
    /\ UNCHANGED classifyVars

\* mutant of GetFileCreate: the file is opened without O_TRUNC, and what it
\* held stays
GetFileCreateNoTrunc ==
    /\ pc = "GetFile create"
    /\ \E ok \in BOOLEAN :
        IF ok
        THEN /\ disk' = [disk EXCEPT ![RealFileName(fileName)].exists = TRUE]
             /\ file' = "open"
             /\ pc' = "GetFile copy"
             /\ UNCHANGED <<ip, ret, stream>>
        ELSE /\ ret' = Ret("GetFile", ErrCreate, <<>>, FALSE, TRUE, 0, FALSE, <<>>)
             /\ stream' = "closed"
             /\ pc' = "run"
             /\ ip' = ip + 1
             /\ UNCHANGED <<disk, file>>
    /\ UNCHANGED <<op, out, clients, ws, body, status, exchange, hdr, attempts, fileName>>
    /\ UNCHANGED classifyVars

\* output, err := os.Create(realFileName) and its error test
GetFileCreate ==
    /\ pc = "GetFile create"
    /\ \E ok \in BOOLEAN :
        IF ok
        THEN /\ disk' = [disk EXCEPT ![RealFileName(fileName)] =
                            [exists |-> TRUE, content |-> <<>>]]
             /\ file' = "open"
             /\ pc' = "GetFile copy"
             /\ UNCHANGED <<ip, ret, stream>>
        ELSE /\ ret' = Ret("GetFile", ErrCreate, <<>>, FALSE, TRUE, 0, FALSE, <<>>)
             /\ stream' = "closed"
             /\ pc' = "run"
             /\ ip' = ip + 1
             /\ UNCHANGED <<disk, file>>
    /\ UNCHANGED <<op, out, clients, ws, body, status, exchange, hdr, attempts, fileName>>
    /\ UNCHANGED classifyVars

\* io.Copy(output, response.Body): byte after byte, until the body's end or
\* an error; then the return, with both deferred Close calls
GetFileCopy ==
    /\ pc = "GetFile copy"
    /\ LET path == RealFileName(fileName)
           n == Len(disk[path].content)
       IN  \/ /\ n < Len(body)
              /\ disk' = [disk EXCEPT ![path].content = Append(@, body[n + 1])]
              /\ UNCHANGED <<pc, ip, ret, stream, file>>
           \/ /\ n < Len(body)
              /\ ret' = Ret("GetFile", ErrCopy, <<>>, FALSE, TRUE, 0, FALSE, <<>>)
              /\ stream' = "closed"
              /\ file' = "closed"
              /\ pc' = "run"
              /\ ip' = ip + 1
              /\ UNCHANGED disk
           \/ /\ n = Len(body)
              /\ ret' = Ret("GetFile", "nil", <<>>, FALSE, TRUE, 0, FALSE, path)
              /\ stream' = "closed"
              /\ file' = "closed"
              /\ pc' = "run"
              /\ ip' = ip + 1
              /\ UNCHANGED disk
    /\ UNCHANGED <<op, out, clients, ws, body, status, exchange, hdr, attempts, fileName>>
    /\ UNCHANGED classifyVars

Next ==
    \/ NewWebService
    \/ StepCheckError
    \/ ParseFlags
    \/ CallGet
    \/ CallPost
    \/ CallRequest3
    \/ StepFatalIfNil
    \/ StepCheckReturnCode
    \/ StepUnmarshal
    \/ StepPrint
    \/ GetFileRequest
    \/ GetFileName
    \/ GetFileCreate
    \/ GetFileCopy
    \/ Finish

Spec == Init /\ [][Next]_vars

-----------------------------------------------------------------------------
(* Vocabulary of the properties, stated on the body text directly *)

Occ(s, p) == {i \in 1..Len(s) : HasAt(s, p, i)}

\* occurrences of p at or after position from
After(s, p, from) == {j \in Occ(s, p) : j >= from}

OneLine(s, a, b) == \A k \in a..b : s[k] # NL

\* the first open of s is followed by a close
HasPair(s, open, close) ==
    /\ Occ(s, open) # {}
    /\ After(s, close, Min(Occ(s, open)) + Len(open)) # {}

\* the text between the first open and the first close that follows it
Between(s, open, close) ==
    LET i == Min(Occ(s, open))
        j == Min(After(s, close, i + Len(open)))
    IN  SubSeq(s, i + Len(open), j - 1)

\* the opens that are followed by a close with no newline in between
LinePairs(s, open, close) ==
    {i \in Occ(s, open) :
        \E j \in After(s, close, i + Len(open)) : OneLine(s, i + Len(open), j - 1)}

\* the text between the first such open and the first close that follows it
LineBetween(s, open, close) ==
    LET i == Min(LinePairs(s, open, close))
        j == Min(After(s, close, i + Len(open)))
    IN  SubSeq(s, i + Len(open), j - 1)

Separators == {",", ":", "{", "}", "\"", "]", "["}

BeforeComma(s) ==
    LET commas == {i \in 1..Len(s) : s[i] = ","}
    IN  IF commas = {} THEN s ELSE SubSeq(s, 1, Min(commas) - 1)

\* every separator removed, the tokens that were apart joined by one space
RECURSIVE Squash(_, _, _)
Squash(s, acc, gap) ==
    IF s = <<>> THEN acc
    ELSE IF Head(s) \in Separators THEN Squash(Tail(s), acc, acc # <<>>)
    ELSE Squash(Tail(s), (IF gap THEN acc \o <<" ">> ELSE acc) \o <<Head(s)>>, FALSE)

Stripped(s) == Squash(s, <<>>, FALSE)

\* the call of CheckReturnCode is over
Ended == pc \in {"returned", "exited", "panicked"}

-----------------------------------------------------------------------------
(* Properties of CheckReturnCode *)

\* C1: a status below 300 returns to the caller with nothing classified,
\* nothing logged and the body untouched; a status of 300 or more never
\* returns: the process exits having logged exactly
\* "HTTP request failed: [<message>]" with the classified message.
C1_StatusDecidesTermination ==
    Ended =>
        /\ mesg = body
        /\ res < 300 => pc = "returned" /\ rule = 0 /\ logged = <<>>
        /\ res >= 300 =>
            /\ pc = "exited"
            /\ rule \in 1..4
            /\ logged = FAILED \o message \o <<"]">>

C1_Witness ==
    /\ pc = "exited"
    /\ res = 300
    /\ body = <<"x">>
    /\ logged = FAILED \o <<"x", "]">>

C1_WitnessReturned == pc = "returned" /\ res = 299 /\ Contains(body, HTML)

\* C2: exactly one rule is picked, by the fixed priority html, errors,
\* error, raw; a body with several markers is handled by the first of them
\* only, and a body with no marker gives the body itself as the message.
C2_FirstMatchWins ==
    pc = "exited" =>
        /\ rule = 1 <=> Contains(body, HTML)
        /\ rule = 2 <=> ~Contains(body, HTML) /\ Contains(body, ERRORSOBJ)
        /\ rule = 3 <=> /\ ~Contains(body, HTML)
                        /\ ~Contains(body, ERRORSOBJ)
                        /\ Contains(body, ERROR)
        /\ rule = 4 <=> /\ ~Contains(body, HTML)
                        /\ ~Contains(body, ERRORSOBJ)
                        /\ ~Contains(body, ERROR)
        /\ rule = 4 => message = body

C2_Witness ==
    /\ pc = "exited"
    /\ Contains(body, HTML)
    /\ Contains(body, ERROR)
    /\ Contains(body, QS)
    /\ rule = 1
    /\ message = GENERIC

C2_WitnessRaw == pc = "exited" /\ rule = 4 /\ body = <<"x", NL, "x">> /\ message = body

\* the pattern of the rule taken
PatternOf(r) == IF r = 1 THEN htmlScrap ELSE IF r = 2 THEN errorsScrap ELSE errorScrap

\* C3: classification never fails: every status of 300 or more ends in the
\* "HTTP request failed" exit, never in a panic, and a rule 1, 2 or 3 whose
\* pattern does not match the body gives exactly "Error executing operation".
C3_ClassificationNeverFails ==
    /\ pc # "panicked"
    /\ Ended /\ res >= 300 =>
        /\ pc = "exited"
        /\ SubSeq(logged, 1, Len(FAILED)) = FAILED
        /\ rule \in 1..3 /\ MatchStarts(body, PatternOf(rule)) = {} => message = GENERIC

C3_Witness ==
    /\ pc = "exited"
    /\ rule = 2
    /\ MatchStarts(body, errorsScrap) = {}
    /\ message = GENERIC

\* C4 as stated: under rule 3 the message is the text between {"error":" and
\* the next " character.
C4_Original ==
    pc = "exited" /\ rule = 3 /\ HasPair(body, ERRORQ, <<"\"">>) =>
        message = Between(body, ERRORQ, <<"\"">>)

\* C4 (amended): under rule 3 the message is the text between the first
\* {"error":" that is followed on the same line by "} and the first "} after
\* it; when no {"error":" is followed on its line by "} the message is
\* "Error executing operation".
C4_ErrorRule ==
    pc = "exited" /\ rule = 3 =>
        IF LinePairs(body, ERRORQ, QCLOSE) # {}
        THEN message = LineBetween(body, ERRORQ, QCLOSE)
        ELSE message = GENERIC

C4_Witness ==
    /\ pc = "exited"
    /\ rule = 3
    /\ body = ERROR \o QS \o <<"}">>
    /\ message = <<"x", " ", "y">>

C4_WitnessMoreFields ==
    /\ pc = "exited"
    /\ rule = 3
    /\ body = ERROR \o QS \o MORE \o <<"}">>
    /\ message = GENERIC

\* C5 as stated: under rule 2 the message is the text between {"errors": and
\* the first } after it, cut at its first comma, with the separators removed
\* and the tokens joined by single spaces.
C5_Original ==
    pc = "exited" /\ rule = 2 /\ HasPair(body, ERRORS, CLOSE) =>
        message = Stripped(BeforeComma(Between(body, ERRORS, CLOSE)))

\* C5 (amended): under rule 2 the message holds none of the characters
\* , : { } " ] [ and is computed from the text between the first {"errors":
\* that is followed on the same line by } and the first } after it: that
\* text cut at its first comma, separators removed, tokens joined by single
\* spaces; when no {"errors": is followed on its line by } the message is
\* "Error executing operation".
C5_ErrorsRule ==
    pc = "exited" /\ rule = 2 =>
        /\ \A k \in 1..Len(message) : message[k] \notin Separators
        /\ IF LinePairs(body, ERRORS, CLOSE) # {}
           THEN message = Stripped(BeforeComma(LineBetween(body, ERRORS, CLOSE)))
           ELSE message = GENERIC

C5_Witness ==
    /\ pc = "exited"
    /\ rule = 2
    /\ body = ERRORS \o OBJ \o <<"}">>
    /\ message = <<"n", " ", "r", " ", "q">>

\* C6 as stated: under rule 1 the message is the text between the first
\* <title> and the </title> that follows it, and "Error executing operation"
\* when the body has no such pair.
C6_Original ==
    pc = "exited" /\ Contains(body, HTML) =>
        /\ rule = 1
        /\ IF HasPair(body, TITLE, ETITLE)
           THEN message = Between(body, TITLE, ETITLE)
           ELSE message = GENERIC

\* C6 (amended): a body that contains <html> is handled by rule 1 alone, and
\* the message is the text between the first <title> that is followed on the
\* same line by </title> and the first </title> after it; when no <title> is
\* followed on its line by </title> the message is "Error executing operation".
C6_HtmlRule ==
    pc = "exited" /\ Contains(body, HTML) =>
        /\ rule = 1
        /\ IF LinePairs(body, TITLE, ETITLE) # {}
           THEN message = LineBetween(body, TITLE, ETITLE)
           ELSE message = GENERIC

C6_Witness ==
    /\ pc = "exited"
    /\ body = HTML \o TITLE \o <<"x">> \o ETITLE
    /\ message = <<"x">>

C6_WitnessNoTitle ==
    /\ pc = "exited"
    /\ Contains(body, HTML)
    /\ Contains(body, ERROR \o QS \o <<"}">>)
    /\ ~Contains(body, TITLE)
    /\ message = GENERIC

-----------------------------------------------------------------------------
(* Properties of the request primitives and of the commands *)

\* the run is over
RunEnded == pc \in {"done", "exited", "panicked"}

\* the last call was a request primitive
Requested == ret.call \notin {"none", "NewWebService"}

\* log.Fatal wrote an "HTTP request failed" line
StatusFailureLogged ==
    /\ Len(logged) >= Len(FAILED)
    /\ SubSeq(logged, 1, Len(FAILED)) = FAILED

\* C7: a primitive whose exchange succeeded at transport level returns to
\* its caller the response's status code and its full body, with no error,
\* whatever the status code.
C7_PrimitiveReturnsStatusAndBody ==
    Requested /\ ret.call # "GetFile" /\ exchange = "ok" =>
        /\ ret.err = "nil"
        /\ ret.hasCode /\ ret.code = status
        /\ ret.hasData /\ ~ret.isNil /\ ret.data = body

\* C8: a command whose request was answered with a status of 300 or more
\* decodes and prints nothing and ends in the "HTTP request failed" exit.
C8_NoPartialSuccess ==
    op \in Commands /\ Requested /\ exchange = "ok" /\ status >= 300 =>
        /\ out = <<>>
        /\ pc # "done"
        /\ pc = "exited" => StatusFailureLogged

\* C9: a command whose request primitive returned a transport error ends by
\* reporting that error, never an "HTTP request failed" line, whatever came
\* along with the error and whatever the order of the command's checks.
C9_TransportErrorFirst ==
    op \in Commands /\ Requested /\ ret.err # "nil" =>
        /\ out = <<>>
        /\ ~StatusFailureLogged
        /\ RunEnded => pc = "exited" /\ logged = <<ret.err>>

\* C10: when the connection cannot be established the primitive has sent
\* exactly one request and returned the error; Get returns a nil body,
\* GetFile an empty path, no file is created or truncated, and nothing is
\* left open.
C10_UnreachableEndpoint ==
    /\ attempts <= 1
    /\ exchange = "dial failed" =>
        /\ attempts = 1
        /\ Requested
        /\ ret.err = ErrDial
        /\ ret.call = "Get" => ret.isNil /\ ret.data = <<>>
        /\ ret.call = "GetFile" => ret.path = <<>> /\ ret.data = <<>>
        /\ disk \in {NoFiles, OldFile}
        /\ file = "none"
        /\ stream = "none"

C10_Witness ==
    /\ op = "GetFile"
    /\ pc = "done"
    /\ exchange = "dial failed"
    /\ ret.err = ErrDial
    /\ ret.path = <<>>
    /\ disk = OldFile

C10_WitnessGet ==
    /\ op = "Get"
    /\ pc = "done"
    /\ exchange = "dial failed"
    /\ ret.isNil
    /\ attempts = 1

-----------------------------------------------------------------------------
(* Properties of GetFile and of the client's construction *)

\* GetFile has got a response and is past the statement that reads the file
\* name from the header
PastFileName == op = "GetFile" /\ exchange = "ok" /\ pc # "GetFile name"

\* the header holds no  filename="..."
NoFilename(h) == ~\E i \in 1..Len(h) :
                    /\ HasAt(h, FNPRE, i)
                    /\ \E j \in (i + Len(FNPRE))..Len(h) : h[j] = QUOTE

\* C11: when the response has no Content-Disposition header, or one the
\* pattern does not match, GetFile does not crash: it returns an error and an
\* empty path, and creates no file.
C11_MissingFilenameIsReturnedError ==
    PastFileName /\ NoFilename(hdr) =>
        /\ pc # "panicked"
        /\ ret.call = "GetFile"
        /\ ret.err # "nil"
        /\ ret.path = <<>>
        /\ file = "none"
        /\ disk \in {NoFiles, OldFile}

\* s is a prefix of t
IsPrefix(s, t) == Len(s) <= Len(t) /\ SubSeq(t, 1, Len(s)) = s

\* the destination of the download
Target == RealFileName(fileName)

\* GetFile has returned, with the error e
GetFileReturned(e) == op = "GetFile" /\ ret.call = "GetFile" /\ ret.err = e

\* C12: GetFile writes one file only, <directoryPath>/<captured file name>.
\* Nothing is written before the file is created; from its creation on, the
\* file exists and holds a prefix of the response body (what it held before
\* is gone); on success it holds the whole body and its path is returned; on
\* a create or copy failure an error and no path are returned, and the file a
\* failed copy leaves is still there with the part written.
C12_OneFilePrefixOfBody ==
    op = "GetFile" =>
        /\ file = "none" => disk \in {NoFiles, OldFile}
        /\ file # "none" =>
            /\ FindFilename(hdr) # <<>>
            /\ fileName = FindFilename(hdr)[2]
            /\ disk[Target].exists
            /\ IsPrefix(disk[Target].content, body)
            /\ \A p \in Paths \ {Target} : disk[p] \in {NoFiles[p], OldFile[p]}
        /\ pc = "GetFile copy" => file = "open"
        /\ GetFileReturned("nil") =>
            /\ file = "closed"
            /\ disk[Target].content = body
            /\ ret.path = Target
        /\ GetFileReturned(ErrCopy) =>
            /\ file = "closed"
            /\ Len(disk[Target].content) < Len(body)
            /\ ret.path = <<>>
        /\ GetFileReturned(ErrCreate) => file = "none" /\ ret.path = <<>>
        /\ GetFileReturned(ErrDial) => file = "none" /\ ret.path = <<>>

\* a three-byte body downloaded over a file that held something else
C12_Witness ==
    /\ GetFileReturned("nil")
    /\ pc = "done"
    /\ body = <<"x", NL, "y">>
    /\ ret.path = <<"d", "/", "r">>
    /\ disk[<<"d", "/", "r">>] = [exists |-> TRUE, content |-> body]
    /\ disk[<<"d", "/">>] = NoFiles[<<"d", "/">>]

\* a copy that failed after the first byte: the file stays, with that byte
C12_WitnessPartial ==
    /\ GetFileReturned(ErrCopy)
    /\ pc = "done"
    /\ body = <<"x", NL, "y">>
    /\ disk[Target] = [exists |-> TRUE, content |-> <<"x">>]

\* the positions inside GetFile, between its request and its return
InGetFile == pc \in {"GetFile name", "GetFile create", "GetFile copy"}

\* C13: the response body stream exists exactly when a response was obtained,
\* and the file handle only once GetFile has created the file; both are open
\* only while GetFile is running, and when a call has ended (by return, by
\* error return or by the panic of the missing file name) neither is open:
\* the stream of every response obtained is closed, and so is the file handle
\* if the file was opened.
C13_ResourcesReleased ==
    /\ stream = "none" <=> exchange \in {"none", "dial failed"}
    /\ pc \in {"GetFile name", "GetFile create"} => stream = "open" /\ file = "none"
    /\ pc = "GetFile copy" => stream = "open" /\ file = "open"
    /\ ~InGetFile => stream # "open" /\ file # "open"
    /\ file # "none" => op = "GetFile" /\ stream # "none"
    /\ file = "closed" <=> GetFileReturned("nil") \/ GetFileReturned(ErrCopy)

\* the panic of the missing file name, with the stream closed while unwinding
C13_Witness ==
    /\ op = "GetFile"
    /\ pc = "panicked"
    /\ exchange = "ok"
    /\ stream = "closed"
    /\ file = "none"

\* a copy error after the file was opened: both closed at the return
C13_WitnessCopyError ==
    /\ GetFileReturned(ErrCopy)
    /\ stream = "closed"
    /\ file = "closed"

\* NewWebService has returned an error
ConstructionFailed == ret.call = "NewWebService" /\ ret.err # "nil"

\* what holds of the client in every state of a run
ClientBuiltFirst ==
    /\ clients <= 1
    /\ ws = (IF clients = 1 THEN Webservice(Config, Client) ELSE NoWs)
    /\ attempts > 0 => clients = 1
    /\ ConstructionFailed =>
        /\ clients = 0
        /\ attempts = 0
        /\ pc \in {"run", "exited"}
        /\ pc = "exited" => logged = <<ret.err>>

\* what holds of the client in every step of a run
ClientKept ==
    /\ attempts' # attempts => ws # NoWs
    /\ ws # NoWs => ws' = ws /\ clients' = clients
    /\ clients' # clients => attempts' = 0
    /\ ConstructionFailed => pc' = "exited" /\ attempts' = 0

\* C14: in every run the client is constructed at most once, and before the
\* first request; a failed construction (configuration or key pair) ends the
\* command at the next statement with nothing sent; and once constructed, the
\* Webservice (its configuration and its client) is the same after every step.
C14_ClientBuiltOnceBeforeRequests == []ClientBuiltFirst /\ [][ClientKept]_vars

\* a command that has sent its request with the client it constructed
C14_Witness ==
    /\ pc = "done"
    /\ clients = 1
    /\ ws = Webservice(Config, Client)
    /\ attempts = 1
    /\ op = "cloud_accounts list"

\* a key pair that does not load: the command has exited with nothing sent
C14_WitnessCredentials ==
    /\ pc = "exited"
    /\ ret = [NoRet EXCEPT !.call = "NewWebService", !.err = ErrCert, !.isNil = TRUE]
    /\ logged = <<ErrCert>>
    /\ attempts = 0
    /\ ws = NoWs

====
